---------------------------- MODULE Spec2Model ----------------------------
(***************************************************************************)
(* A model of mezzanine.core.models: the Slugged mix-in (slug generation   *)
(* with a numeric suffix on save) and the Orderable mix-in (the _order     *)
(* index assigned on save and compacted on delete).                        *)
(*                                                                         *)
(* Strings are sequences of one-character strings.  An optional field is a *)
(* sequence of length 0 (None) or 1 (the value).  The database table of a  *)
(* concrete model is a function from the ids of its rows to records.       *)
(***************************************************************************)
EXTENDS Integers, Sequences, FiniteSets, TLC

\* ------------------------------------------------------------------ bounds
\* In-memory Slugged instances a caller holds.
MaxSlugInst == 3
\* Rows ever inserted into the Slugged table (stops the auto-increment id).
MaxSlugIds == 2
\* Rows ever inserted into the Slugged table by a caller that only saves.
MaxSuffixIds == 3
\* Field assignments (title, slug) a caller makes to instances it holds.
MaxEdits == 1
\* In-memory Orderable instances a caller holds.
MaxOrdInst == 2
\* Entities a caller that only creates and deletes makes.
MaxCreated == 4
\* Rows ever inserted into the Orderable table, the ones it starts with
\* included.
MaxOrdIds == 4
\* _order assignments a caller makes itself to instances it holds.
MaxOrdEdits == 1

\* --------------------------------------------------------------- optionals
None == <<>>
Some(v) == <<v>>
Val(o) == o[1]
\* self.id is None before the first save; the database numbers rows from 1.
NoId == 0

\* ----------------------------------------------------------------- strings
Digits == <<"0", "1", "2", "3", "4", "5", "6", "7", "8", "9">>

RECURSIVE IntToStr(_)
\* "%s" % i for an integer i >= 0: its decimal digits.
IntToStr(n) ==
    IF n < 10 THEN <<Digits[n + 1]>>
    ELSE IntToStr(n \div 10) \o <<Digits[(n % 10) + 1]>>

\* s.rsplit("-", 1)[0]: what precedes the last hyphen, or s when it has none.
RSplitHead(s) ==
    LET hy == {k \in 1..Len(s) : s[k] = "-"}
    IN  IF hy = {} THEN s
        ELSE SubSeq(s, 1, (CHOOSE k \in hy : \A j \in hy : j <= k) - 1)

\* "%s-%s" % (slug, i)
Format(slug, i) == slug \o <<"-">> \o IntToStr(i)

\* Characters of the regular expression classes \w, \s used by slugify.
WordChars == {"a", "b", "A", "B", "_", "0", "1", "2", "3", "4", "5", "6",
              "7", "8", "9"}
SpaceChars == {" "}

Lower(c) == IF c = "A" THEN "a" ELSE IF c = "B" THEN "b" ELSE c

IsSep(c) == c = "-" \/ c \in SpaceChars

\* re.sub('[^\w\s-]', '', value)
KeepSlugChars(s) ==
    SelectSeq(s, LAMBDA c : c \in WordChars \/ IsSep(c))

RECURSIVE Strip(_)
\* value.strip(): no leading and no trailing white space.
Strip(s) ==
    IF s = <<>> THEN s
    ELSE IF Head(s) \in SpaceChars THEN Strip(Tail(s))
    ELSE IF s[Len(s)] \in SpaceChars THEN Strip(SubSeq(s, 1, Len(s) - 1))
    ELSE s

RECURSIVE CollapseSeps(_)
\* re.sub('[-\s]+', '-', value): each run of hyphens and spaces is one hyphen.
CollapseSeps(s) ==
    IF s = <<>> THEN s
    ELSE IF IsSep(Head(s))
         THEN IF Len(s) > 1 /\ IsSep(s[2]) THEN CollapseSeps(Tail(s))
              ELSE <<"-">> \o CollapseSeps(Tail(s))
         ELSE <<Head(s)>> \o CollapseSeps(Tail(s))

\* django.template.defaultfilters.slugify, as Slugged.get_slug calls it.
slugify(value) ==
    LET kept == Strip(KeepSlugChars(value))
    IN  CollapseSeps([k \in 1..Len(kept) |-> Lower(kept[k])])

get_slug(title) == slugify(title)

\* Titles a caller gives an entity: one that slugifies to "a" and one that
\* slugifies to the empty string.
Titles == { <<" ", "A", "!">>, <<"!">> }

\* Slugs a caller assigns itself instead of leaving the field blank.
SuppliedSlugs == { <<"a">> }


\* ------------------------------------------------------------------- state
VARIABLES
    oInst,      \* Orderable instances in memory: [scope, order, id]
    oTable,     \* the Orderable model's table: id -> [scope, order]
    oNextId,    \* the table's next auto-increment id
    oWrt,       \* whether the model's Meta names order_with_respect_to
    oPc,        \* the instance whose delete() is between its two statements
    oEdits,     \* _order assignments the caller has made so far
    oLast,      \* what the last Orderable statement did
    sInst,      \* Slugged instances in memory: [title, slug, id]
    sTable,     \* the Slugged model's table: id -> [slug] (the column read)
    sNextId,    \* the table's next auto-increment id
    sEdits,     \* field assignments the caller has made so far
    sGen,       \* history: ids of the rows whose slug the loop chose
    sLast,      \* what the last Slugged call did: its loop's locals at exit
    rPcS,       \* concurrent callers: where each is in Slugged.save
    rI,         \* concurrent callers: the loop index i of each
    rPcO,       \* concurrent callers: where each is in Orderable.save
    rLate       \* history: the models of which a read followed a write

slugVars == <<sInst, sTable, sNextId, sEdits, sGen, sLast>>
ordVars == <<oInst, oTable, oNextId, oWrt, oPc, oEdits, oLast>>
raceVars == <<rPcS, rI, rPcO, rLate>>
vars == <<slugVars, ordVars, raceVars>>

\* No concurrent callers.
RaceIdle ==
    /\ rPcS = << >>
    /\ rI = << >>
    /\ rPcO = << >>
    /\ rLate = {}

SlugInst == 1..MaxSlugInst

\* The loop in Slugged.save has no bound of its own; the model stops it after
\* more attempts than the table can ever hold rows.
MaxAttempts ==
    (IF MaxSlugIds > MaxSuffixIds THEN MaxSlugIds ELSE MaxSuffixIds) + 2

\* A save that has lost its ``if not self.slug`` guard.
BlankAlways(slug) == TRUE

\* ``not self.slug``: None and the empty string are both blank.
Blank(slug) == slug = None \/ Val(slug) = <<>>

\* qs = concrete_model.objects.all(), less the entity's own row when it has
\* an id.
Others(table, id) ==
    {k \in DOMAIN table : id = NoId \/ k # id}

\* A lookup that asks another model's (empty) table.
MatchesWrongTable(table, id, slug) == {}

\* The rows qs.get(slug=self.slug) finds.
Matches(table, id, slug) ==
    {k \in Others(table, id) : table[k].slug = slug}

\* A loop that appends each index to the previous candidate.
NextCandidateCumulative(slug, i) ==
    IF i > 0 THEN Format(slug, i) ELSE slug

\* A loop that strips the index again and never puts the new one on.
NextCandidateStuck(slug, i) ==
    IF i > 1 THEN RSplitHead(slug) ELSE slug

\* The slug tried at attempt i, from the slug tried at attempt i - 1.
NextCandidate(slug, i) ==
    IF i > 0
    THEN Format(IF i > 1 THEN RSplitHead(slug) ELSE slug, i)
    ELSE slug

\* What qs.get does with the rows it finds: DoesNotExist ends the loop,
\* one row goes on to the next attempt, several raise.
GetOutcome(found) ==
    IF found = {} THEN "DoesNotExist"
    ELSE IF Cardinality(found) = 1 THEN "found"
    ELSE "MultipleObjectsReturned"

RECURSIVE Loop(_, _, _, _, _)
\* The ``while True`` loop: the slug it ends with, the attempts made, the
\* candidates tried and how it ended.
Loop(table, id, slug, i, tried) ==
    LET cand == NextCandidate(slug, i)
        got  == GetOutcome(Matches(table, id, cand))
        seen == Append(tried, cand)
    IN  IF got = "DoesNotExist"
        THEN [slug |-> cand, i |-> i, tried |-> seen, outcome |-> "ok"]
        ELSE IF got = "MultipleObjectsReturned"
        THEN [slug |-> cand, i |-> i, tried |-> seen, outcome |-> got]
        ELSE IF i + 1 >= MaxAttempts
        THEN [slug |-> cand, i |-> i, tried |-> seen, outcome |-> "unfinished"]
        ELSE Loop(table, id, cand, i + 1, seen)

\* The slug Slugged.save settles on for an instance, before it writes.
Resolve(table, me) ==
    IF Blank(me.slug)
    THEN Loop(table, me.id, get_slug(me.title), 0, <<>>)
    ELSE [slug |-> Val(me.slug), i |-> 0, tried |-> <<>>, outcome |-> "ok"]

\* super(Slugged, self).save(): INSERT under a fresh id, or UPDATE of the row.
Write(table, id, row) ==
    [k \in DOMAIN table \cup {id} |-> IF k = id THEN row ELSE table[k]]

NewSlugged(t) == [title |-> t, slug |-> None, id |-> NoId]

\* No Orderable model in use.
OrdIdle ==
    /\ oInst = << >>
    /\ oTable = << >>
    /\ oNextId = 1
    /\ oWrt = FALSE
    /\ oPc = 0
    /\ oEdits = 0
    /\ oLast = [op |-> "init", e |-> 0, after |-> {}]

\* No Slugged model in use.
SlugIdle ==
    /\ sInst = << >>
    /\ sTable = << >>
    /\ sNextId = 1
    /\ sEdits = 0
    /\ sGen = {}
    /\ sLast = [op |-> "init", e |-> 0, resolved |-> FALSE, update |-> FALSE,
                i |-> 0, tried |-> <<>>, outcome |-> "ok"]

SlugInit ==
    /\ OrdIdle
    /\ RaceIdle
    /\ sInst \in [SlugInst -> {NewSlugged(t) : t \in Titles}]
    /\ sTable = << >>
    /\ sNextId = 1
    /\ sEdits = 0
    /\ sGen = {}
    /\ sLast = [op |-> "init", e |-> 0, resolved |-> FALSE, update |-> FALSE,
                i |-> 0,
                tried |-> <<>>, outcome |-> "ok"]

\* The caller changes the title of an instance it holds.
SetTitle(e, t) ==
    /\ sEdits < MaxEdits
    /\ sInst[e].title # t
    /\ sEdits' = sEdits + 1
    /\ sInst' = [sInst EXCEPT ![e].title = t]
    /\ sLast' = [op |-> "set_title", e |-> 0, resolved |-> FALSE,
                 update |-> FALSE, i |-> 0,
                 tried |-> <<>>, outcome |-> "ok"]
    /\ UNCHANGED <<sTable, sNextId, sGen, ordVars, raceVars>>

\* The caller assigns a slug itself.
SetSlug(e, s) ==
    /\ sEdits < MaxEdits
    /\ sInst[e].slug # Some(s)
    /\ sEdits' = sEdits + 1
    /\ sInst' = [sInst EXCEPT ![e].slug = Some(s)]
    /\ sLast' = [op |-> "set_slug", e |-> 0, resolved |-> FALSE,
                 update |-> FALSE, i |-> 0,
                 tried |-> <<>>, outcome |-> "ok"]
    /\ UNCHANGED <<sTable, sNextId, sGen, ordVars, raceVars>>

\* Slugged.save, on a table that takes no more than cap inserts.
SaveUpTo(e, cap) ==
    LET me == sInst[e]
        r  == Resolve(sTable, me)
        id == IF me.id = NoId THEN sNextId ELSE me.id
        kept == me.id # NoId /\ sTable[me.id].slug = r.slug
    IN  /\ (me.id = NoId /\ r.outcome = "ok") => sNextId <= cap
        /\ UNCHANGED <<sEdits, ordVars, raceVars>>
        /\ sLast' = [op |-> "save", e |-> e, resolved |-> Blank(me.slug),
                     update |-> me.id # NoId, i |-> r.i, tried |-> r.tried,
                     outcome |-> r.outcome]
        /\ IF r.outcome = "ok"
           THEN /\ sInst' = [sInst EXCEPT ![e].slug = Some(r.slug), ![e].id = id]
                /\ sTable' = Write(sTable, id, [slug |-> r.slug])
                /\ sNextId' = IF me.id = NoId THEN sNextId + 1 ELSE sNextId
                /\ sGen' = IF Blank(me.slug) THEN sGen \cup {id}
                           ELSE IF kept THEN sGen ELSE sGen \ {id}
           ELSE IF r.outcome = "MultipleObjectsReturned"
           THEN /\ sInst' = [sInst EXCEPT ![e].slug = Some(r.slug)]
                /\ UNCHANGED <<sTable, sNextId, sGen>>
           ELSE UNCHANGED <<sInst, sTable, sNextId, sGen>>

Save(e) == SaveUpTo(e, MaxSlugIds)

\* delete() of a Slugged entity (models.Model.delete: Slugged adds nothing).
Delete(e) ==
    LET me == sInst[e]
    IN  /\ me.id # NoId
        /\ sTable' = [k \in DOMAIN sTable \ {me.id} |-> sTable[k]]
        /\ sInst' = [sInst EXCEPT ![e].id = NoId]
        /\ sGen' = sGen \ {me.id}
        /\ sLast' = [op |-> "delete", e |-> 0, resolved |-> FALSE,
                     update |-> FALSE, i |-> 0, tried |-> <<>>,
                     outcome |-> "ok"]
        /\ UNCHANGED <<sNextId, sEdits, ordVars, raceVars>>

SlugNext ==
    \/ \E e \in SlugInst, t \in Titles : SetTitle(e, t)
    \/ \E e \in SlugInst, s \in SuppliedSlugs : SetSlug(e, s)
    \/ \E e \in SlugInst : Save(e)
    \/ \E e \in SlugInst : Delete(e)

SlugSpec == SlugInit /\ [][SlugNext]_vars


\* Sequential resolution over a store that holds nothing of the base's
\* forms: every instance has a title of one base, the table starts empty or
\* with a record of another slug, and the caller only saves.
SuffixTitles ==
    Titles \cup { <<"a">>, <<"A", " ", "b">>, <<"a", " ", "-", "B", "!">> }

ForeignSlugs == { <<"a">>, <<"b", "-", "1">> }

\* slug is neither base nor base-k.
NotOfBase(slug, base) ==
    /\ slug # base
    /\ \A k \in 1..MaxAttempts : slug # Format(base, k)

SuffixInit ==
    /\ OrdIdle
    /\ RaceIdle
    /\ \E t \in SuffixTitles :
          sInst \in [SlugInst ->
                        {NewSlugged(u) : u \in {v \in SuffixTitles :
                                                  get_slug(v) = get_slug(t)}}]
    /\ \/ sTable = << >>
       \/ \E f \in ForeignSlugs :
             /\ NotOfBase(f, get_slug(sInst[1].title))
             /\ sTable = <<[slug |-> f]>>
    /\ sNextId = Len(sTable) + 1
    /\ sEdits = 0
    /\ sGen = {}
    /\ sLast = [op |-> "init", e |-> 0, resolved |-> FALSE, update |-> FALSE,
                i |-> 0, tried |-> <<>>, outcome |-> "ok"]

SuffixNext == \E e \in SlugInst : SaveUpTo(e, MaxSuffixIds)

SuffixSpec == SuffixInit /\ [][SuffixNext]_vars

\* ---------------------------------------------------------------- Orderable

OrdInst == 1..MaxOrdInst

\* Values of the field that order_with_respect_to names (two parents).
Scopes == {"p", "q"}

\* _order values a caller assigns itself: 0, the set value that a test of
\* truth instead of ``is None`` would take for unset.
ExplicitOrders == {0}

\* A with_respect_to that filters on the field whether or not the model
\* names one.
with_respect_toAlways(me) == {me.scope}

\* Orderable.with_respect_to: the filter {field: value}, or {} when the model
\* has no order_with_respect_to.  A filter is the set of scope values it
\* lets through.
with_respect_to(me) == IF oWrt THEN {me.scope} ELSE Scopes

\* A lookup that forgets the with_respect_to filter.
SiblingsAnyScope(table, lookup) == DOMAIN table

\* concrete_model.objects.filter(**lookup)
Siblings(table, lookup) == {k \in DOMAIN table : table[k].scope \in lookup}

\* A filter on _order__gt instead of _order__gte.
AfterGt(table, lookup, t) ==
    {k \in Siblings(table, lookup) : table[k].order > t}

\* after = concrete_model.objects.filter(**lookup), _order__gte included
After(table, lookup, t) ==
    {k \in Siblings(table, lookup) : table[k].order >= t}

\* after.update(_order=models.F("_order") - 1)
Decrement(table, ids) ==
    [k \in DOMAIN table |->
        IF k \in ids THEN [table[k] EXCEPT !.order = @ - 1] ELSE table[k]]

NewOrderable(sc) == [scope |-> sc, order |-> None, id |-> NoId]

OrdLast(op, e, after) == [op |-> op, e |-> e, after |-> after]

\* The table after one entity of each scope was created by callers that
\* hold them no longer: _order 0 in each scope, or 0 and 1 when the model
\* names no order_with_respect_to.
Seeded(wrt) ==
    << [scope |-> "p", order |-> 0],
       [scope |-> "q", order |-> IF wrt THEN 0 ELSE 1] >>

\* A caller holding the new, unsaved instances insts over a table that is
\* empty or, when seeds are allowed, seeded.
OrdFresh(insts, seeds) ==
    /\ oInst \in [insts -> {NewOrderable(sc) : sc \in Scopes}]
    /\ oWrt \in BOOLEAN
    /\ oTable \in {<< >>} \cup (IF seeds THEN {Seeded(oWrt)} ELSE {})
    /\ oNextId = Len(oTable) + 1
    /\ oPc = 0
    /\ oEdits = 0
    /\ oLast = OrdLast("init", 0, {})

OrdInit == OrdFresh(OrdInst, TRUE) /\ SlugIdle /\ RaceIdle

\* The caller assigns _order itself (explicit reordering).
SetOrder(e, v) ==
    /\ oPc = 0
    /\ oEdits < MaxOrdEdits
    /\ oInst[e].order # Some(v)
    /\ oInst' = [oInst EXCEPT ![e].order = Some(v)]
    /\ oEdits' = oEdits + 1
    /\ oLast' = OrdLast("set_order", 0, {})
    /\ UNCHANGED <<oTable, oNextId, oWrt, oPc, slugVars, raceVars>>

\* An index that numbers the siblings from 1.
CountOneBased(table, lookup) == Cardinality(Siblings(table, lookup)) + 1

\* concrete_model.objects.filter(**lookup).count()
Count(table, lookup) == Cardinality(Siblings(table, lookup))

\* Orderable.save
OrdSave(e) ==
    LET me == oInst[e]
        order == IF me.order = None
                 THEN Count(oTable, with_respect_to(me))
                 ELSE Val(me.order)
        id == IF me.id = NoId THEN oNextId ELSE me.id
    IN  /\ oPc = 0
        /\ me.id = NoId => oNextId <= MaxOrdIds
        /\ oInst' = [oInst EXCEPT ![e].order = Some(order), ![e].id = id]
        /\ oTable' = Write(oTable, id, [scope |-> me.scope, order |-> order])
        /\ oNextId' = IF me.id = NoId THEN oNextId + 1 ELSE oNextId
        /\ oLast' = OrdLast("save", e, {})
        /\ UNCHANGED <<oWrt, oPc, oEdits, slugVars, raceVars>>

\* Orderable.delete up to the update of the siblings.  _order__gte=None is
\* refused by the query (ValueError) before anything is written.
DeleteUpdate(e) ==
    LET me == oInst[e]
        after == After(oTable, with_respect_to(me), Val(me.order))
    IN  /\ oPc = 0
        /\ me.order # None
        /\ oTable' = Decrement(oTable, after)
        /\ oPc' = e
        /\ oLast' = OrdLast("delete_update", e, after)
        /\ UNCHANGED <<oInst, oNextId, oWrt, oEdits, slugVars, raceVars>>

\* Orderable.delete from super().delete(): the row goes and the instance
\* loses its id; an instance without id fails the assertion of Model.delete.
DeleteRow(e) ==
    LET me == oInst[e]
    IN  /\ oPc = e
        /\ oPc' = 0
        /\ IF me.id = NoId
           THEN /\ oLast' = OrdLast("delete_failed", e, {})
                /\ UNCHANGED <<oInst, oTable>>
           ELSE /\ oTable' = [k \in DOMAIN oTable \ {me.id} |-> oTable[k]]
                /\ oInst' = [oInst EXCEPT ![e].id = NoId]
                /\ oLast' = OrdLast("delete", e, {})
        /\ UNCHANGED <<oNextId, oWrt, oEdits, slugVars, raceVars>>

OrdNext ==
    \/ \E e \in OrdInst, v \in ExplicitOrders : SetOrder(e, v)
    \/ \E e \in OrdInst : OrdSave(e)
    \/ \E e \in OrdInst : DeleteUpdate(e)
    \/ \E e \in OrdInst : DeleteRow(e)

OrdSpec == OrdInit /\ [][OrdNext]_vars

\* A caller that only creates entities (first save, _order unset) and
\* deletes persisted ones.
FirstSave(e) ==
    /\ oInst[e].id = NoId
    /\ oInst[e].order = None
    /\ OrdSave(e)

DeletePersisted(e) ==
    /\ oInst[e].id # NoId
    /\ DeleteUpdate(e)

Created == 1..MaxCreated

CreateDeleteInit == OrdFresh(Created, FALSE) /\ SlugIdle /\ RaceIdle

CreateDeleteNext ==
    \/ \E e \in Created : FirstSave(e)
    \/ \E e \in Created : DeletePersisted(e)
    \/ \E e \in Created : DeleteRow(e)

CreateDeleteSpec == CreateDeleteInit /\ [][CreateDeleteNext]_vars

\* ------------------------------------------------------- concurrent callers
\* Two callers, each making the first save of its own new Slugged entity
\* and of its own new Orderable entity.  Every database statement is one
\* step; the steps of the two callers interleave freely.
Callers == {1, 2}

\* A read of the table of model m: late when a caller has written already.
Read(m, pcs) ==
    IF \E q \in Callers : pcs[q] = "done" THEN rLate \cup {m} ELSE rLate

RaceInit ==
    /\ sInst \in [Callers -> {NewSlugged(t) : t \in Titles}]
    /\ sTable \in { << >>, <<[slug |-> <<"a">>]>> }
    /\ sNextId = Len(sTable) + 1
    /\ sEdits = 0
    /\ sGen = {}
    /\ sLast = [op |-> "init", e |-> 0, resolved |-> FALSE, update |-> FALSE,
                i |-> 0, tried |-> <<>>, outcome |-> "ok"]
    /\ oInst \in [Callers -> {NewOrderable(sc) : sc \in Scopes}]
    /\ oTable \in { << >>, <<[scope |-> "p", order |-> 0]>> }
    /\ oNextId = Len(oTable) + 1
    /\ oWrt \in BOOLEAN
    /\ oPc = 0
    /\ oEdits = 0
    /\ oLast = OrdLast("init", 0, {})
    /\ rPcS = [p \in Callers |-> "begin"]
    /\ rI = [p \in Callers |-> 0]
    /\ rPcO = [p \in Callers |-> "count"]
    /\ rLate = {}

\* Slugged.save up to the loop: the slug from the title, i = 0.
SlugBegin(p) ==
    /\ rPcS[p] = "begin"
    /\ IF Blank(sInst[p].slug)
       THEN /\ sInst' = [sInst EXCEPT ![p].slug = Some(get_slug(sInst[p].title))]
            /\ rI' = [rI EXCEPT ![p] = 0]
            /\ rPcS' = [rPcS EXCEPT ![p] = "query"]
       ELSE /\ rPcS' = [rPcS EXCEPT ![p] = "write"]
            /\ UNCHANGED <<sInst, rI>>
    /\ UNCHANGED <<sTable, sNextId, sEdits, sGen, sLast, ordVars, rPcO, rLate>>

\* One turn of the loop: the candidate of attempt i and its existence query.
SlugQuery(p) ==
    LET cand == NextCandidate(Val(sInst[p].slug), rI[p])
        got  == GetOutcome(Matches(sTable, sInst[p].id, cand))
    IN  /\ rPcS[p] = "query"
        /\ got = "found" => rI[p] + 1 < MaxAttempts
        /\ sInst' = [sInst EXCEPT ![p].slug = Some(cand)]
        /\ rI' = [rI EXCEPT ![p] = IF got = "found" THEN @ + 1 ELSE @]
        /\ rPcS' = [rPcS EXCEPT ![p] =
                       IF got = "DoesNotExist" THEN "write"
                       ELSE IF got = "found" THEN "query" ELSE "raised"]
        /\ rLate' = Read("slugged", rPcS)
        /\ UNCHANGED <<sTable, sNextId, sEdits, sGen, sLast, ordVars, rPcO>>

\* super(Slugged, self).save()
SlugWrite(p) ==
    LET id == IF sInst[p].id = NoId THEN sNextId ELSE sInst[p].id
    IN  /\ rPcS[p] = "write"
        /\ sTable' = Write(sTable, id, [slug |-> Val(sInst[p].slug)])
        /\ sInst' = [sInst EXCEPT ![p].id = id]
        /\ sNextId' = IF sInst[p].id = NoId THEN sNextId + 1 ELSE sNextId
        /\ sGen' = sGen \cup {id}
        /\ rPcS' = [rPcS EXCEPT ![p] = "done"]
        /\ UNCHANGED <<sEdits, sLast, ordVars, rI, rPcO, rLate>>

\* Orderable.save up to the count of the siblings.
OrdCount(p) ==
    LET me == oInst[p]
    IN  /\ rPcO[p] = "count"
        /\ oInst' = [oInst EXCEPT ![p].order =
                        IF me.order = None
                        THEN Some(Count(oTable, with_respect_to(me)))
                        ELSE @]
        /\ rPcO' = [rPcO EXCEPT ![p] = "write"]
        /\ rLate' = Read("orderable", rPcO)
        /\ UNCHANGED <<oTable, oNextId, oWrt, oPc, oEdits, oLast, slugVars,
                       rPcS, rI>>

\* super(Orderable, self).save()
OrdWrite(p) ==
    LET me == oInst[p]
        id == IF me.id = NoId THEN oNextId ELSE me.id
    IN  /\ rPcO[p] = "write"
        /\ oTable' = Write(oTable, id,
                           [scope |-> me.scope, order |-> Val(me.order)])
        /\ oInst' = [oInst EXCEPT ![p].id = id]
        /\ oNextId' = IF me.id = NoId THEN oNextId + 1 ELSE oNextId
        /\ rPcO' = [rPcO EXCEPT ![p] = "done"]
        /\ UNCHANGED <<oWrt, oPc, oEdits, oLast, slugVars, rPcS, rI, rLate>>

RaceNext ==
    \/ \E p \in Callers : SlugBegin(p)
    \/ \E p \in Callers : SlugQuery(p)
    \/ \E p \in Callers : SlugWrite(p)
    \/ \E p \in Callers : OrdCount(p)
    \/ \E p \in Callers : OrdWrite(p)

RaceSpec == RaceInit /\ [][RaceNext]_vars

\* ----------------------------------------------------- claims on Slugged
SlugOf(k) == sTable[k].slug

\* C1 (as stated): no two persisted records have the same slug, whatever
\* saves and deletes a single caller has issued, slugs supplied by the
\* caller included.
C1_SlugsUnique ==
    \A j, k \in DOMAIN sTable : j # k => SlugOf(j) # SlugOf(k)

\* C1 (amended): no two persisted records whose slugs were both chosen by
\* the loop in Slugged.save have the same slug; a slug the instance carried
\* into save is persisted unchecked.
C1_GeneratedSlugsUnique ==
    \A j, k \in sGen : j # k => SlugOf(j) # SlugOf(k)

\* Two entities of one title are persisted, each with the slug the loop
\* chose for it.
C1_Witness ==
    \E e, d \in SlugInst :
        /\ e # d
        /\ sInst[e].id \in sGen
        /\ sInst[d].id \in sGen
        /\ sInst[e].id # sInst[d].id
        /\ sInst[e].title = sInst[d].title

\* The step is a save of a persisted instance whose slug field is what its
\* row holds (the caller has not assigned another one).
ResaveOf(e) ==
    /\ sLast'.op = "save"
    /\ sLast'.e = e
    /\ sInst[e].id # NoId
    /\ sInst[e].slug = Some(SlugOf(sInst[e].id))

SlugKept(e) ==
    /\ sInst[e].id \in DOMAIN sTable'
    /\ sTable'[sInst[e].id].slug = SlugOf(sInst[e].id)

\* C4 (as stated): every save of an entity that is already persisted leaves
\* its persisted slug as it was, for every title, the ones that slugify to
\* the empty string included.
C4_SlugImmutable ==
    [][\A e \in SlugInst : ResaveOf(e) => SlugKept(e)]_slugVars

\* C4 (amended): every save of an entity persisted with a non-empty slug
\* leaves its persisted slug as it was, whatever its title has become.
C4_NonEmptySlugImmutable ==
    [][\A e \in SlugInst :
          (ResaveOf(e) /\ SlugOf(sInst[e].id) # <<>>) => SlugKept(e)]_slugVars

\* A persisted entity was saved again after its title changed to one that
\* slugifies to something else, and its slug stayed.
C4_Witness ==
    /\ sLast.op = "save"
    /\ sLast.update
    /\ sLast.outcome = "ok"
    /\ sEdits > 0
    /\ LET me == sInst[sLast.e]
       IN  /\ me.id \in sGen
           /\ SlugOf(me.id) # <<>>
           /\ get_slug(me.title) # SlugOf(me.id)

\* C9: a save that ran the loop ends normally with a slug that no other
\* persisted record holds, and a candidate found among the other records,
\* held by one of them or by several, only moves the loop to the next
\* attempt: the save never ends there.
C9_ResolverPostcondition ==
    (sLast.op = "save" /\ sLast.resolved) =>
        /\ sLast.outcome = "ok"
        /\ LET me == sInst[sLast.e]
           IN  \A k \in DOMAIN sTable : k # me.id => SlugOf(k) # Val(me.slug)

DistinctSlugs(table) ==
    \A j, k \in DOMAIN table : j # k => table[j].slug # table[k].slug

\* C10: over a table of N records with pairwise distinct slugs the loop in
\* Slugged.save ends normally after at most N + 1 existence queries.
C10_LoopTerminates ==
    [][(sLast'.op = "save" /\ sLast'.resolved /\ DistinctSlugs(sTable)) =>
          /\ sLast'.outcome = "ok"
          /\ Len(sLast'.tried) <= Cardinality(DOMAIN sTable) + 1]_slugVars

\* A first save that needed one query more than the records it found.
C10_Witness ==
    /\ sLast.op = "save"
    /\ sLast.resolved
    /\ ~sLast.update
    /\ sLast.outcome = "ok"
    /\ Len(sLast.tried) = 2
    /\ Cardinality(DOMAIN sTable) = 2


\* The instances saved before e, in the order of their ids.
SavedBefore(e) ==
    {d \in SlugInst : sInst[d].id # NoId /\ sInst[d].id < sInst[e].id}

\* base for n = 0, base-n otherwise.
SuffixForm(base, n) == IF n = 0 THEN base ELSE Format(base, n)

\* C3: over a store with no record of the forms base and base-k, the N
\* entities saved one after another with titles of that base get base,
\* base-1, ..., base-(N-1) in order, and every candidate the loop tries at
\* attempt i is base (i = 0) or base-i, never a cumulative form.
C3_SuffixSequence ==
    /\ \A e \in SlugInst :
          sInst[e].id # NoId =>
              SlugOf(sInst[e].id) =
                  SuffixForm(get_slug(sInst[e].title),
                             Cardinality(SavedBefore(e)))
    /\ (sLast.op = "save" /\ sLast.resolved) =>
          \A j \in 1..Len(sLast.tried) :
              sLast.tried[j] =
                  SuffixForm(get_slug(sInst[sLast.e].title), j - 1)

\* The third entity of a base with a hyphen in it has been given base-2.
C3_Witness ==
    \E e \in SlugInst :
        /\ sInst[e].id # NoId
        /\ get_slug(sInst[e].title) = <<"a", "-", "b">>
        /\ SlugOf(sInst[e].id) = <<"a", "-", "b", "-", "2">>
        /\ sLast.tried = << <<"a", "-", "b">>, <<"a", "-", "b", "-", "1">>,
                            <<"a", "-", "b", "-", "2">> >>


\* ---------------------------------------------------- claims on Orderable
\* Two scope values are of one sibling group.
SameGroup(a, b) == ~oWrt \/ a = b

Group(sc) == {k \in DOMAIN oTable : SameGroup(oTable[k].scope, sc)}

\* C2: between the operations of a caller that only creates entities and
\* deletes persisted ones, each through the instance it holds, the _order
\* values of every sibling group are 0, 1, ..., k-1 in insertion order.
C2_OrderContiguity ==
    oPc = 0 =>
        \A sc \in Scopes : \A k \in Group(sc) :
            oTable[k].order = Cardinality({j \in Group(sc) : j < k})

\* The step is the update of the siblings in delete() of instance e.
IsDeleteUpdate(e) == oLast'.op = "delete_update" /\ oLast'.e = e

\* The step is the removal of the row in delete() of instance e.
IsDeleteRow(e) == oPc = e /\ oPc' = 0

\* C5: delete() of an entity with _order = t in scope S lowers by exactly 1
\* the _order of every other persisted entity of S with _order >= t and
\* leaves the _order of the entities of S below t, and of every entity of
\* another scope, as it was.
C5_DeleteEffectFrame ==
    [][\A e \in DOMAIN oInst :
          LET me == oInst[e]
              t  == Val(me.order)
          IN  /\ IsDeleteUpdate(e) =>
                   \A k \in DOMAIN oTable :
                      /\ k \in DOMAIN oTable'
                      /\ (k # me.id /\ SameGroup(oTable[k].scope, me.scope)
                            /\ oTable[k].order >= t)
                          => oTable'[k].order = oTable[k].order - 1
                      /\ (SameGroup(oTable[k].scope, me.scope)
                            /\ oTable[k].order < t)
                          => oTable'[k].order = oTable[k].order
                      /\ ~SameGroup(oTable[k].scope, me.scope)
                          => oTable'[k].order = oTable[k].order
              /\ IsDeleteRow(e) =>
                   \A k \in DOMAIN oTable \ {me.id} :
                      k \in DOMAIN oTable' /\ oTable'[k] = oTable[k]]_vars

\* In the middle of a delete: a sibling has been lowered, a sibling below
\* the threshold and an entity of another scope have not.
C5_Witness ==
    /\ oPc # 0
    /\ oWrt
    /\ LET me == oInst[oPc]
       IN  /\ \E k \in oLast.after : k # me.id
           /\ \E k \in DOMAIN oTable :
                 oTable[k].scope = me.scope /\ k \notin oLast.after
           /\ \E k \in DOMAIN oTable : oTable[k].scope # me.scope

\* C6 (as stated): during delete() the row of the entity being deleted is
\* not among the rows decremented, and no persisted _order is ever negative.
C6_OwnRowExcluded ==
    /\ oPc # 0 => oInst[oPc].id \notin oLast.after
    /\ \A k \in DOMAIN oTable : oTable[k].order >= 0

\* C6 (amended): the row of the entity being deleted is among the rows
\* decremented whenever it is persisted in the instance's scope with an
\* _order >= the instance's; between the decrement and the removal it is
\* one lower than it was, and the removal takes exactly that row away.
C6_OwnRowDecremented ==
    [][\A e \in DOMAIN oInst :
          LET me == oInst[e]
          IN  /\ (IsDeleteUpdate(e) /\ me.id # NoId
                    /\ SameGroup(oTable[me.id].scope, me.scope)
                    /\ oTable[me.id].order >= Val(me.order)) =>
                     /\ me.id \in oLast'.after
                     /\ oTable'[me.id].order = oTable[me.id].order - 1
              /\ (IsDeleteRow(e) /\ me.id # NoId) =>
                     DOMAIN oTable' = DOMAIN oTable \ {me.id}]_vars

\* Between the two statements of the delete of an entity at _order 0: its
\* own row stands at -1.
C6_Witness ==
    /\ oPc # 0
    /\ oInst[oPc].id \in oLast.after
    /\ oInst[oPc].order = Some(0)
    /\ oTable[oInst[oPc].id].order = -1

\* C7: a first save with _order unset persists the number of entities
\* already persisted in the entity's scope; a save with _order set persists
\* that value; neither changes the _order of another entity.
C7_CreateIndex ==
    [][\A e \in DOMAIN oInst :
          (oLast'.op = "save" /\ oLast'.e = e) =>
              LET me == oInst[e]
                  id == oInst'[e].id
              IN  /\ id \in DOMAIN oTable'
                  /\ (me.order = None /\ me.id = NoId) =>
                        oTable'[id].order =
                            Cardinality({k \in DOMAIN oTable :
                                SameGroup(oTable[k].scope, me.scope)})
                  /\ me.order # None => oTable'[id].order = Val(me.order)
                  /\ \A k \in DOMAIN oTable \ {id} :
                        /\ k \in DOMAIN oTable'
                        /\ oTable'[k].order = oTable[k].order]_vars

\* A first save came second in its scope while the other scope holds an
\* entity, the caller having assigned no _order itself.
C7_Witness ==
    /\ oLast.op = "save"
    /\ oWrt
    /\ oEdits = 0
    /\ LET me == oInst[oLast.e]
       IN  /\ me.order = Some(1)
           /\ \E k \in DOMAIN oTable : oTable[k].scope # me.scope


\* ------------------------------------------------ claims on concurrent use
\* Every read of the table of model m was made before any write to it.
ReadsFirst(m) == m \notin rLate

\* C8: when both callers read before either writes, the two entities of one
\* scope are persisted with the same _order, and the two entities of one
\* title with the same slug; both saves end normally and leave it so.
C8_RaceDuplicates ==
    /\ ( /\ \A p \in Callers : rPcO[p] = "done"
         /\ ReadsFirst("orderable")
         /\ SameGroup(oInst[1].scope, oInst[2].scope) )
       => oTable[oInst[1].id].order = oTable[oInst[2].id].order
    /\ ( /\ \A p \in Callers : rPcS[p] \in {"done", "raised"}
         /\ ReadsFirst("slugged")
         /\ sInst[1].title = sInst[2].title )
       => /\ \A p \in Callers : rPcS[p] = "done"
          /\ SlugOf(sInst[1].id) = SlugOf(sInst[2].id)

\* Both callers are done: two entities of one scope have the same _order
\* and two entities of one title the same slug, found at the second attempt.
C8_Witness ==
    /\ \A p \in Callers : rPcO[p] = "done" /\ rPcS[p] = "done"
    /\ oWrt
    /\ oInst[1].scope = oInst[2].scope
    /\ oInst[1].id # oInst[2].id
    /\ oTable[oInst[1].id].order = 1
    /\ oTable[oInst[2].id].order = 1
    /\ sInst[1].title = sInst[2].title
    /\ sInst[1].id # sInst[2].id
    /\ SlugOf(sInst[1].id) = <<"a", "-", "1">>
    /\ SlugOf(sInst[2].id) = <<"a", "-", "1">>

=============================================================================
